---- MODULE Spec2Model ----
(***************************************************************************)
(* Model of src/src/extension.ts: the "generate docstrings for file"       *)
(* command of the auto-doc-generator extension.                            *)
(*                                                                         *)
(* A line of text is a string; a character is a string of length one.      *)
(* The document is the sequence of its lines (without line terminators).   *)
(* Line numbers are 0-based as in the source: document.lineAt(n) is        *)
(* lines[n + 1].                                                           *)
(***************************************************************************)
EXTENDS Integers, Sequences, FiniteSets, TLC

VARIABLES
    editor,       \* is there an active text editor (window.activeTextEditor)
    language,     \* document.languageId
    lines,        \* the live document, a sequence of lines
    pc,           \* "idle" | "loop" | "await" | "done"
    totalLines,   \* the line count snapshotted on entry (line 73)
    lineNumber,   \* the loop variable (line 76)
    docstring,    \* the template rendered for the current line (line 94)
    pending,      \* the edit handed to editor.edit and not yet settled
    messages,     \* the information messages shown so far
    passes,       \* number of invocations of the command so far
    startLines,   \* history: the document when the current pass began
    visited,      \* history: the indexes read by the loop in this pass
    inserted,     \* history: indexes at which an edit was applied in this pass
    failed        \* history: number of edits the host did not apply so far

vars == <<editor, language, lines, pc, totalLines, lineNumber, docstring,
          pending, messages, passes, startLines, visited, inserted, failed>>

-----------------------------------------------------------------------------
(* Bounds of the model *)

MaxLines == 2      \* longest initial document
MaxPasses == 2     \* invocations of the command in one behaviour
MaxFailures == 1   \* edits the host refuses in one behaviour

-----------------------------------------------------------------------------
(* Characters and strings *)

NL == "\n"
Ch(s, i) == SubSeq(s, i, i)

\* \s of the regular expressions, restricted to what a line can hold
SpaceChars == {" ", "\t"}

\* \w of the regular expressions: [A-Za-z0-9_]
WordChars ==
    {"a","b","c","d","e","f","g","h","i","j","k","l","m","n","o","p","q","r",
     "s","t","u","v","w","x","y","z",
     "A","B","C","D","E","F","G","H","I","J","K","L","M","N","O","P","Q","R",
     "S","T","U","V","W","X","Y","Z",
     "0","1","2","3","4","5","6","7","8","9","_"}

RECURSIVE SkipWhile(_, _, _)
\* the first index j >= i with Ch(s, j) \notin set (Len(s) + 1 when none)
SkipWhile(s, i, set) ==
    IF i <= Len(s) /\ Ch(s, i) \in set THEN SkipWhile(s, i + 1, set) ELSE i

\* does sub occur in s starting at index i
HasAt(s, i, sub) ==
    /\ i + Len(sub) - 1 <= Len(s)
    /\ SubSeq(s, i, i + Len(sub) - 1) = sub

\* String.prototype.includes
Includes(s, sub) == \E i \in 1..(Len(s) + 1) : HasAt(s, i, sub)

RECURSIVE FindChar(_, _, _)
\* the first index j >= i with Ch(s, j) = c, 0 when none
FindChar(s, i, c) ==
    IF i > Len(s) THEN 0
    ELSE IF Ch(s, i) = c THEN i ELSE FindChar(s, i + 1, c)

RECURSIVE Split(_, _)
\* String.prototype.split on a one-character separator
Split(s, sep) ==
    LET j == FindChar(s, 1, sep)
    IN  IF j = 0 THEN <<s>>
        ELSE <<SubSeq(s, 1, j - 1)>> \o Split(SubSeq(s, j + 1, Len(s)), sep)

RECURSIVE TrimEnd(_)
TrimEnd(s) ==
    IF Len(s) > 0 /\ Ch(s, Len(s)) \in SpaceChars
    THEN TrimEnd(SubSeq(s, 1, Len(s) - 1)) ELSE s

\* String.prototype.trim
Trim(s) == TrimEnd(SubSeq(s, SkipWhile(s, 1, SpaceChars), Len(s)))

RECURSIVE Join(_, _)
\* Array.prototype.join
Join(seq, sep) ==
    IF Len(seq) = 0 THEN ""
    ELSE IF Len(seq) = 1 THEN seq[1]
    ELSE seq[1] \o sep \o Join(Tail(seq), sep)

RECURSIVE ReplaceChar(_, _, _)
\* String.prototype.replace(/c/g, by) for a one-character pattern
ReplaceChar(s, c, by) ==
    IF Len(s) = 0 THEN ""
    ELSE (IF Ch(s, 1) = c THEN by ELSE Ch(s, 1))
         \o ReplaceChar(SubSeq(s, 2, Len(s)), c, by)

RECURSIVE FilterNonEmpty(_)
FilterNonEmpty(seq) ==
    IF Len(seq) = 0 THEN <<>>
    ELSE (IF Len(seq[1]) > 0 THEN <<seq[1]>> ELSE <<>>)
         \o FilterNonEmpty(Tail(seq))

CountChar(s, c) == Cardinality({i \in 1..Len(s) : Ch(s, i) = c})

-----------------------------------------------------------------------------
(* generateDocstring, lines 6-15 *)

\* mutant: the python template without the blank line after the description
generateDocstring_noBlankLine(lang, name, params) ==
    IF lang = "python" THEN
        LET paramLines ==
                Join([k \in 1..Len(params) |->
                          ":param " \o params[k] \o ": DESCRIPTION"], NL)
        IN  "\"\"\"" \o name \o " description." \o NL
            \o paramLines \o (IF Len(params) # 0 THEN NL ELSE "")
            \o ":return: DESCRIPTION" \o NL \o "\"\"\""
    ELSE IF lang = "javascript" \/ lang = "typescript" THEN
        "/**" \o NL \o " * " \o name \o " description." \o NL
        \o " * @returns {any} DESCRIPTION" \o NL \o " */"
    ELSE ""

generateDocstring(lang, name, params) ==
    IF lang = "python" THEN
        LET paramLines ==
                Join([k \in 1..Len(params) |->
                          ":param " \o params[k] \o ": DESCRIPTION"], NL)
        IN  "\"\"\"" \o name \o " description." \o NL \o NL
            \o paramLines \o (IF Len(params) # 0 THEN NL ELSE "")
            \o ":return: DESCRIPTION" \o NL \o "\"\"\""
    ELSE IF lang = "javascript" \/ lang = "typescript" THEN
        LET paramLines ==
                Join([k \in 1..Len(params) |->
                          " * @param {any} " \o params[k] \o " DESCRIPTION"], NL)
        IN  "/**" \o NL \o " * " \o name \o " description." \o NL
            \o paramLines \o (IF Len(params) # 0 THEN NL ELSE "")
            \o " * @returns {any} DESCRIPTION" \o NL \o " */"
    ELSE ""

-----------------------------------------------------------------------------
(* parseFunctionOrClass, lines 20-43 *)

NULL == [type |-> "null"]
NoMatch == [matched |-> FALSE]

\* /^\s*<keyword>\s+(\w+)\s*\(([^)]*)\)/ ; the character classes that follow
\* one another are disjoint, so the greedy match is the only match
funcRegex(line, keyword) ==
    LET i1 == SkipWhile(line, 1, SpaceChars)
        i2 == i1 + Len(keyword)
        i3 == SkipWhile(line, i2, SpaceChars)
        i4 == SkipWhile(line, i3, WordChars)
        i5 == SkipWhile(line, i4, SpaceChars)
        i6 == FindChar(line, i5 + 1, ")")
    IN  IF /\ HasAt(line, i1, keyword)
           /\ i3 > i2
           /\ i4 > i3
           /\ HasAt(line, i5, "(")
           /\ i6 > 0
        THEN [matched |-> TRUE,
              g1 |-> SubSeq(line, i3, i4 - 1),
              g2 |-> SubSeq(line, i5 + 1, i6 - 1)]
        ELSE NoMatch

\* /^\s*class\s+(\w+)/
classRegex(line) ==
    LET i1 == SkipWhile(line, 1, SpaceChars)
        i2 == i1 + Len("class")
        i3 == SkipWhile(line, i2, SpaceChars)
        i4 == SkipWhile(line, i3, WordChars)
    IN  IF HasAt(line, i1, "class") /\ i3 > i2 /\ i4 > i3
        THEN [matched |-> TRUE, g1 |-> SubSeq(line, i3, i4 - 1)]
        ELSE NoMatch

\* the keyword of funcRegex chosen at lines 23-29
funcKeyword(lang) == IF lang = "python" THEN "def" ELSE "function"

\* matchFunc[2].split(',').map(p => p.trim()).filter(p => p.length > 0)
splitParams(g2) ==
    LET pieces == Split(g2, ",")
    IN  FilterNonEmpty([k \in 1..Len(pieces) |-> Trim(pieces[k])])

\* mutant: the function pattern of either family is tried whatever the language
parseFunctionOrClass_anyFamily(line, lang) ==
    LET matchDef == funcRegex(line, "def")
        matchFunction == funcRegex(line, "function")
        matchClass == classRegex(line)
    IN  IF matchDef.matched
        THEN [type |-> "function", name |-> matchDef.g1,
              params |-> splitParams(matchDef.g2)]
        ELSE IF matchFunction.matched
        THEN [type |-> "function", name |-> matchFunction.g1,
              params |-> splitParams(matchFunction.g2)]
        ELSE IF matchClass.matched
        THEN [type |-> "class", name |-> matchClass.g1, params |-> <<>>]
        ELSE NULL

parseFunctionOrClass(line, lang) ==
    LET matchFunc == funcRegex(line, funcKeyword(lang))
        matchClass == classRegex(line)
    IN  IF matchFunc.matched
        THEN [type |-> "function", name |-> matchFunc.g1,
              params |-> splitParams(matchFunc.g2)]
        ELSE IF matchClass.matched
        THEN [type |-> "class", name |-> matchClass.g1, params |-> <<>>]
        ELSE NULL

-----------------------------------------------------------------------------
(* insertDocstringAtLine, lines 48-59 *)

lineAt(doc, n) == doc[n + 1]

\* lineText.match(/^(\s*)/)[1]
indentOf(lineText) == SubSeq(lineText, 1, SkipWhile(lineText, 1, SpaceChars) - 1)

\* mutant: the internal line breaks are left as they are
reindent_firstLineOnly(template, indent) == template

\* docstring.replace(/\n/g, `\n${indent}`)
reindent(template, indent) == ReplaceChar(template, NL, NL \o indent)

\* mutant: the trailing line break is left out
insertDocstringAtLine_noTrailingBreak(doc, n, template) ==
    LET indent == indentOf(lineAt(doc, n))
    IN  [line |-> n, character |-> 0,
         text |-> indent \o reindent(template, indent)]

\* the edit built at lines 54-57: an insertion at Position(lineNumber, 0)
insertDocstringAtLine(doc, n, template) ==
    LET indent == indentOf(lineAt(doc, n))
    IN  [line |-> n, character |-> 0,
         text |-> indent \o reindent(template, indent) \o NL]

\* the host applying an insertion: the text goes in front of column
\* edit.character of line edit.line and the document is cut into lines again
applyEdit(doc, edit) ==
    LET target == lineAt(doc, edit.line)
        joined == SubSeq(target, 1, edit.character) \o edit.text
                  \o SubSeq(target, edit.character + 1, Len(target))
    IN  SubSeq(doc, 1, edit.line) \o Split(joined, NL)
        \o SubSeq(doc, edit.line + 2, Len(doc))

-----------------------------------------------------------------------------
(* generateDocstringsForFile, lines 64-99 *)

\* lines 82-91: a doc marker on the line itself or on one of the two above
hasDocstring(doc, n) ==
    \E i \in 0..2 :
        /\ n - i >= 0
        /\ \/ Includes(lineAt(doc, n - i), "\"\"\"")
           \/ Includes(lineAt(doc, n - i), "/**")

\* mutant: the loop is bounded by the live line count
loopBound_liveCount(doc, snapshot) == Len(doc)

\* line 76: the loop runs while lineNumber < totalLines, the snapshot
loopBound(doc, snapshot) == snapshot

\* mutant: a refused edit ends the loop
resumeAfterEdit_stopOnRefusal(applied) == IF applied THEN "loop" ELSE "done"

\* lines 95-96: the awaited result of editor.edit is not looked at
resumeAfterEdit(applied) == "loop"

NoEdit == [line |-> -1, character |-> 0, text |-> ""]

MsgNoEditor == "No active editor found."
MsgDone == "Docstrings inserted for all functions/classes in file!"

Languages == {"python", "javascript", "typescript", "plaintext"}

\* the lines an initial document is built from
LineCatalogue ==
    {"def f(a, b):",
     "  def g():",
     "class C:",
     "\tfunction h(x) {",
     "x = 1",
     "\"\"\"",
     "/**"}

RECURSIVE SeqsUpTo(_, _)
\* the sequences over set of length 1..n
SeqsUpTo(set, n) ==
    IF n = 0 THEN {}
    ELSE LET shorter == SeqsUpTo(set, n - 1)
         IN  {<<x>> : x \in set} \cup shorter
             \cup {Append(s, x) : s \in shorter, x \in set}

\* the extension is active and no document is open yet
Init ==
    /\ editor = FALSE
    /\ language = ""
    /\ lines = <<>>
    /\ pc = "idle"
    /\ totalLines = 0
    /\ lineNumber = 0
    /\ docstring = ""
    /\ pending = NoEdit
    /\ messages = <<>>
    /\ passes = 0
    /\ startLines = lines
    /\ visited = <<>>
    /\ inserted = <<>>
    /\ failed = 0

\* the user opens a document: from now on there is an active editor
OpenDocument ==
    /\ ~editor
    /\ pc \in {"idle", "done"}
    /\ editor' = TRUE
    /\ language' \in Languages
    /\ lines' \in SeqsUpTo(LineCatalogue, MaxLines)
    /\ startLines' = lines'
    /\ UNCHANGED <<pc, totalLines, lineNumber, docstring, pending, messages,
                   passes, visited, inserted, failed>>

\* lines 65-69: no active editor
NoActiveEditor ==
    /\ ~editor
    /\ pc \in {"idle", "done"}
    /\ passes < MaxPasses
    /\ pc' = "done"
    /\ messages' = Append(messages, MsgNoEditor)
    /\ passes' = passes + 1
    /\ totalLines' = 0
    /\ lineNumber' = 0
    /\ startLines' = lines
    /\ visited' = <<>>
    /\ inserted' = <<>>
    /\ UNCHANGED <<editor, language, lines, docstring, pending, failed>>

\* lines 71-76: the snapshot of the line count and the loop's initialisation
StartPass ==
    /\ editor
    /\ pc \in {"idle", "done"}
    /\ passes < MaxPasses
    /\ pc' = "loop"
    /\ totalLines' = Len(lines)
    /\ lineNumber' = 0
    /\ passes' = passes + 1
    /\ startLines' = lines
    /\ visited' = <<>>
    /\ inserted' = <<>>
    /\ UNCHANGED <<editor, language, lines, docstring, pending, messages, failed>>

InLoop ==
    /\ pc = "loop"
    /\ lineNumber < loopBound(lines, totalLines)

\* lines 77-79: the line is no declaration
SkipNoDeclaration ==
    /\ InLoop
    /\ parseFunctionOrClass(lineAt(lines, lineNumber), language) = NULL
    /\ lineNumber' = lineNumber + 1
    /\ visited' = Append(visited, lineNumber)
    /\ UNCHANGED <<editor, language, lines, pc, totalLines, docstring, pending,
                   messages, passes, startLines, inserted, failed>>

\* lines 77-92: a declaration that counts as documented
SkipDocumented ==
    /\ InLoop
    /\ parseFunctionOrClass(lineAt(lines, lineNumber), language) # NULL
    /\ hasDocstring(lines, lineNumber)
    /\ lineNumber' = lineNumber + 1
    /\ visited' = Append(visited, lineNumber)
    /\ UNCHANGED <<editor, language, lines, pc, totalLines, docstring, pending,
                   messages, passes, startLines, inserted, failed>>

\* lines 77-95 and 49-57: the edit is built and handed to editor.edit
RequestInsert ==
    /\ InLoop
    /\ LET parsed == parseFunctionOrClass(lineAt(lines, lineNumber), language)
       IN  /\ parsed # NULL
           /\ ~hasDocstring(lines, lineNumber)
           /\ docstring' = generateDocstring(language, parsed.name, parsed.params)
           /\ pending' = insertDocstringAtLine(lines, lineNumber, docstring')
    /\ pc' = "await"
    /\ visited' = Append(visited, lineNumber)
    /\ UNCHANGED <<editor, language, lines, totalLines, lineNumber, messages,
                   passes, startLines, inserted, failed>>

\* lines 53-58, 95-96: the host applied the edit; the loop goes on
EditApplied ==
    /\ pc = "await"
    /\ lines' = applyEdit(lines, pending)
    /\ inserted' = Append(inserted, pending.line)
    /\ pending' = NoEdit
    /\ docstring' = ""
    /\ pc' = resumeAfterEdit(TRUE)
    /\ lineNumber' = lineNumber + 1
    /\ UNCHANGED <<editor, language, totalLines, messages, passes, startLines,
                   visited, failed>>

\* lines 53-58, 95-96: editor.edit resolved to false; nothing was applied
EditRejected ==
    /\ pc = "await"
    /\ failed < MaxFailures
    /\ pending' = NoEdit
    /\ failed' = failed + 1
    /\ docstring' = ""
    /\ pc' = resumeAfterEdit(FALSE)
    /\ lineNumber' = lineNumber + 1
    /\ UNCHANGED <<editor, language, lines, totalLines, messages, passes,
                   startLines, visited, inserted>>

\* lines 76, 98: the loop is over and the completion message is shown
LoopExit ==
    /\ pc = "loop"
    /\ ~(lineNumber < loopBound(lines, totalLines))
    /\ pc' = "done"
    /\ messages' = Append(messages, MsgDone)
    /\ UNCHANGED <<editor, language, lines, totalLines, lineNumber, docstring,
                   pending, passes, startLines, visited, inserted, failed>>

Next ==
    \/ OpenDocument
    \/ NoActiveEditor
    \/ StartPass
    \/ SkipNoDeclaration
    \/ SkipDocumented
    \/ RequestInsert
    \/ EditApplied
    \/ EditRejected
    \/ LoopExit

Spec == Init /\ [][Next]_vars

\* the command is between its first loop test and its completion message
Running == pc \in {"loop", "await"}

\* Weak fairness of the running command: the single-threaded loop takes its
\* next step and the host settles every edit it was handed.  A running command
\* always has a step to take (its three loop guards are exhaustive and the
\* host either applies an edit or refuses it), so ENABLED of its step is
\* Running, and WF is written with that state predicate in place of ENABLED.
FairSpec == Spec /\ ([]<>(~Running) \/ []<><<Running>>_vars)

-----------------------------------------------------------------------------
(* Vocabulary of the properties *)

Recognized == {"python", "javascript", "typescript"}

\* <<0, 1, ..., n - 1>>
UpTo(n) == [k \in 1..n |-> k - 1]

\* s starts with a run of exactly n whitespace characters
LeadingRun(s, n) ==
    /\ n <= Len(s)
    /\ \A k \in 1..n : Ch(s, k) \in SpaceChars
    /\ n < Len(s) => Ch(s, n + 1) \notin SpaceChars

\* line matches the function or the class pattern of language lang
MatchesDeclaration(line, lang) ==
    \/ funcRegex(line, IF lang = "python" THEN "def" ELSE "function").matched
    \/ classRegex(line).matched

HasKeyword(line) ==
    \/ Includes(line, "def")
    \/ Includes(line, "function")
    \/ Includes(line, "class")

\* the doc marker of the family of lang, on line n - 1 or n - 2 of doc
OwnMarker(lang) ==
    IF lang = "python" THEN {"\"\"\""}
    ELSE IF lang \in {"javascript", "typescript"} THEN {"/**"}
    ELSE {}

OwnMarkerAbove(doc, n, lang) ==
    \E i \in 1..2 : \E m \in OwnMarker(lang) :
        n - i >= 0 /\ Includes(lineAt(doc, n - i), m)

RECURSIVE DocumentFrom(_, _, _, _)
\* doc with one block put above every declaration of orig at an index < n
\* that has no marker in its look-back window, last declaration first
DocumentFrom(doc, orig, n, lang) ==
    IF n = 0 THEN doc
    ELSE LET i == n - 1
             parsed == parseFunctionOrClass(lineAt(orig, i), lang)
             done == IF parsed # NULL /\ ~hasDocstring(orig, i)
                     THEN applyEdit(doc, insertDocstringAtLine(doc, i,
                              generateDocstring(lang, parsed.name, parsed.params)))
                     ELSE doc
         IN  DocumentFrom(done, orig, i, lang)

\* every declaration of orig documented exactly once
DocumentedOnce(orig, lang) == DocumentFrom(orig, orig, Len(orig), lang)

\* the step in which the host applies the pending edit
AppliedStep == pc = "await" /\ inserted' # inserted

\* the step in which the host refuses the pending edit
RejectedStep == pc = "await" /\ failed' # failed

-----------------------------------------------------------------------------
(* C1 *)

-----------------------------------------------------------------------------
(* C2 *)

-----------------------------------------------------------------------------
(* C3 *)

\* C3: an edit is requested at index i only when the live line i matches the
\* function or class pattern of the document's language; that line holds a
\* declaration keyword, and no line of the block about to be inserted is
\* itself a declaration.
C3_NoFalsePositive ==
    pc = "await" =>
        /\ pending.line = lineNumber
        /\ pending.line < Len(lines)
        /\ MatchesDeclaration(lineAt(lines, pending.line), language)
        /\ HasKeyword(lineAt(lines, pending.line))
        /\ LET block == Split(pending.text, NL)
           IN  \A k \in 1..Len(block) : ~MatchesDeclaration(block[k], language)

W3_InsertIntoDocumentedBuffer ==
    /\ pc = "await"
    /\ passes = 2
    /\ language = "python"
    /\ \E k \in 1..Len(lines) : Includes(lines[k], ":return: DESCRIPTION")

-----------------------------------------------------------------------------
(* C4 *)

\* C4: in a language that is neither python nor javascript/typescript the
\* rendered template is empty and the pass leaves the document as it was.
C4_UnrecognizedLanguageUntouched ==
    (editor /\ language \notin Recognized)
        => (docstring = "" /\ lines = startLines)

-----------------------------------------------------------------------------
(* C5 *)

\* the python template of the current declaration, line by line
PyTemplateCase == pc = "await" /\ language = "python"
PyParsed == parseFunctionOrClass(lineAt(lines, lineNumber), language)
PyBlock == Split(docstring, NL)

\* C5 as stated: with no parameter the description line is followed directly
\* by the return line; with parameters it is followed by one blank line, the
\* parameter lines in order and the return line.
C5_ZeroParamNoBlankLine ==
    PyTemplateCase =>
        LET n == Len(PyParsed.params)
        IN  /\ PyBlock[1] = "\"\"\"" \o PyParsed.name \o " description."
            /\ IF n = 0
               THEN PyBlock[2] = ":return: DESCRIPTION"
               ELSE /\ PyBlock[2] = ""
                    /\ \A k \in 1..n :
                           PyBlock[2 + k] = ":param " \o PyParsed.params[k]
                                            \o ": DESCRIPTION"
                    /\ PyBlock[3 + n] = ":return: DESCRIPTION"

\* C5 amended: the description line is always followed by one blank line,
\* then one ":param <p>: DESCRIPTION" line per parameter in input order (none
\* when there is no parameter), then ":return: DESCRIPTION" and the closing
\* triple quote.
C5_BlankLineThenParams ==
    PyTemplateCase =>
        LET n == Len(PyParsed.params)
        IN  /\ Len(PyBlock) = n + 4
            /\ PyBlock[1] = "\"\"\"" \o PyParsed.name \o " description."
            /\ PyBlock[2] = ""
            /\ \A k \in 1..n :
                   PyBlock[2 + k] = ":param " \o PyParsed.params[k]
                                    \o ": DESCRIPTION"
            /\ PyBlock[3 + n] = ":return: DESCRIPTION"
            /\ PyBlock[4 + n] = "\"\"\""

W5_ZeroParamTemplate ==
    /\ PyTemplateCase
    /\ PyParsed.type = "function"
    /\ PyParsed.params = <<>>

-----------------------------------------------------------------------------
(* C6 *)

\* C6: an applied insertion at index i only adds lines: the lines below index
\* i keep their index, the line at i and every later line move down by the
\* number of newlines of the template plus one, all with their text unchanged.
C6_InsertionFrame ==
    [][AppliedStep =>
        LET i == pending.line
            k == CountChar(docstring, NL) + 1
        IN  /\ Len(lines') = Len(lines) + k
            /\ \A j \in 0..(Len(lines) - 1) :
                   IF j < i THEN lineAt(lines', j) = lineAt(lines, j)
                   ELSE lineAt(lines', j + k) = lineAt(lines, j)]_vars

W6_InsertedBetweenLines ==
    /\ inserted # <<>>
    /\ inserted[1] > 0
    /\ inserted[1] < totalLines - 1
    /\ language \in Recognized

-----------------------------------------------------------------------------
(* C7 *)

\* C7: every line of an inserted block is the leading whitespace run of the
\* target line followed by the corresponding line of the template.
C7_Reindented ==
    [][AppliedStep =>
        LET i == pending.line
            target == lineAt(lines, i)
            template == Split(docstring, NL)
        IN  \E n \in 0..Len(target) :
                /\ LeadingRun(target, n)
                /\ \A k \in 1..Len(template) :
                       lineAt(lines', i + k - 1)
                           = SubSeq(target, 1, n) \o template[k]]_vars

W7_IndentedBlock ==
    /\ inserted # <<>>
    /\ \E k \in 1..Len(lines) :
           lines[k] \in {"  :return: DESCRIPTION", "\t * @returns {any} DESCRIPTION"}

-----------------------------------------------------------------------------
(* C8 *)

\* C8: for a declaration at index i the insertion is skipped exactly when line
\* i - 1 or line i - 2 holds the doc marker of the document's own family.
C8_LookBackWindow ==
    [][(/\ pc = "loop"
        /\ lineNumber < totalLines
        /\ MatchesDeclaration(lineAt(lines, lineNumber), language)
        /\ lineNumber' # lineNumber \/ pc' # pc)
          => (pc' = "loop" <=> OwnMarkerAbove(lines, lineNumber, language))]_vars

-----------------------------------------------------------------------------
(* C9 *)

-----------------------------------------------------------------------------
(* C10 *)

C10_State ==
    /\ pc \in {"loop", "await"} =>
          /\ totalLines = Len(startLines)
          /\ totalLines <= Len(lines)
          /\ lineNumber <= totalLines
          /\ Len(inserted) <= totalLines
          /\ visited = UpTo(IF pc = "await" THEN lineNumber + 1 ELSE lineNumber)
          /\ lineNumber < loopBound(lines, totalLines) =>
                 /\ lineNumber < Len(lines)
                 /\ \A i \in 0..2 : lineNumber - i >= 0 => lineNumber - i < Len(lines)
    /\ pc = "await" => pending.line = lineNumber /\ lineNumber < totalLines
    /\ (pc = "done" /\ editor /\ passes > 0) =>
          /\ visited = UpTo(totalLines)
          /\ Len(inserted) <= totalLines
          /\ pending = NoEdit

C10_Shown ==
    (messages' # messages /\ editor) =>
        /\ pc = "loop"
        /\ lineNumber = totalLines
        /\ visited = UpTo(totalLines)
        /\ pending = NoEdit
        /\ messages' = Append(messages, MsgDone)

\* C10: with an active editor every pass ends; it reads the indexes
\* 0..totalLines-1 of the snapshot once each in increasing order, applies at
\* most totalLines insertions, reads only lines of the live document, and shows
\* the completion message after the last index with no edit pending.
C10_BoundedScanTerminates ==
    /\ []C10_State
    /\ [][C10_Shown]_vars
    /\ (pc = "loop") ~> (pc = "done")

W10_PassEndedAfterGrowth ==
    /\ pc = "done"
    /\ editor
    /\ Len(inserted) > 0
    /\ Len(lines) > totalLines + 3
    /\ messages # <<>>

=============================================================================
